---- MODULE Spec2Model ----
(***************************************************************************)
(* A model of backend/main.py: the token oracle adapter (get_token_count), *)
(* the boundary chunker (split_text_into_chunks) and the /translate        *)
(* request handler (translate).                                            *)
(*                                                                         *)
(* Text is a sequence of one-character strings.  The alphabet stands for   *)
(* the character classes the code distinguishes: "a" is any character that *)
(* is neither whitespace nor a sentence ending, " " is the space, "." is a *)
(* sentence ending that is not whitespace (. ! ? and the Khmer and CJK     *)
(* enders) and "\n" is the newline, which is both a sentence ending and    *)
(* whitespace.                                                             *)
(***************************************************************************)
EXTENDS Integers, Sequences, FiniteSets, TLC

VARIABLES
    text,               \* the text argument / request.text
    source_lang,        \* the source_lang argument / request.source_lang
    max_tokens,         \* the max_tokens argument of split_text_into_chunks
    tokenizer,          \* behaviour of the global tokenizer (the token oracle)
    pc,                 \* position of the running function
    remaining,          \* split_text_into_chunks: local remaining
    chunks,             \* split_text_into_chunks: local chunks / translate: chunks
    iter,               \* split_text_into_chunks: locals of the last loop iteration
    count_result,       \* outcome of the last get_token_count call under test
    target_lang,        \* request.target_lang
    model,              \* the global model: "loaded" or None
    i,                  \* translate: index of the chunk loop
    translated_chunks,  \* translate: local translated_chunks
    calls,              \* the calls of translate_chunk so far, in order
    response,           \* the HTTP response of translate, None before it
    split_calls         \* number of calls of split_text_into_chunks by translate

split_vars == <<max_tokens, remaining, iter>>

handler_vars == <<target_lang, model, i, translated_chunks, calls, response,
                  split_calls>>

vars == <<text, source_lang, tokenizer, pc, chunks, count_result, split_vars,
          handler_vars>>

-----------------------------------------------------------------------------
(* Bounds of the model *)

MaxFill == 9
MaxTail == 3
MaxW == 2

(* Program constants *)

MAX_TEXT_LENGTH == 5000
MAX_INPUT_TOKENS == 1024
RESERVE == 50
HANDLER_RESERVE == 50
FALLBACK_SCAN == 500

-----------------------------------------------------------------------------
(* Python string primitives *)

Min(a, b) == IF a < b THEN a ELSE b

Max(a, b) == IF a > b THEN a ELSE b

SetMax(S) == CHOOSE x \in S : \A y \in S : y <= x

\* s[lo:hi] for 0 <= lo, 0 <= hi
Slice(s, lo, hi) == SubSeq(s, lo + 1, Min(hi, Len(s)))

\* s[:n]
Prefix(s, n) == Slice(s, 0, n)

\* s[n:]
Suffix(s, n) == SubSeq(s, n + 1, Len(s))

\* c.isspace()
isspace(c) == c \in {" ", "\n"}

\* s.strip()
strip(s) ==
    LET keep == {k \in 1..Len(s) : ~isspace(s[k])}
    IN  IF keep = {} THEN <<>>
        ELSE SubSeq(s, CHOOSE k \in keep : \A j \in keep : k <= j, SetMax(keep))

\* s.rfind(' ', lo, hi): the 0-based index of the last space in s[lo:hi], or -1
rfind(s, lo, hi) ==
    LET hits == {j \in lo..(Min(hi, Len(s)) - 1) : s[j + 1] = " "}
    IN  IF hits = {} THEN -1 ELSE SetMax(hits)

\* source_lang.startswith(p), on the language tags of the model
startswith(lang, p) ==
    CASE lang \in {"khm_Khmr"} -> p = "khm_"
      [] lang \in {"zho_Hans"} -> p = "zho_"
      [] lang \in {"jpn_Jpan"} -> p = "jpn_"
      [] OTHER -> FALSE

\* Python's None, as a value of Optional[str]
None == "<None>"

-----------------------------------------------------------------------------
(* The token oracle *)

\* tokenizer.encode(text, add_special_tokens=False), its length: the external
\* tokenizer.  A letter costs tk.w tokens, any other character one token; with
\* tk.merge two adjacent letters are one token (so a prefix may cost more than
\* a longer prefix when tk.w > 1).
RECURSIVE encode_len(_, _)
encode_len(s, tk) ==
    IF s = <<>> THEN 0
    ELSE IF tk.merge /\ Len(s) >= 2 /\ s[1] = "a" /\ s[2] = "a"
         THEN 1 + encode_len(SubSeq(s, 3, Len(s)), tk)
         ELSE (IF s[1] = "a" THEN tk.w ELSE 1) + encode_len(Tail(s), tk)

\* get_token_count: [raised, type, value].  The except branch evaluates
\* source_lang.startswith, which raises AttributeError on None; len(text) // 2.5
\* is a float (of integral value), len(text) // 4 an int.
get_token_count(s, lang) ==
    IF ~tokenizer.fails
    THEN [raised |-> "no", type |-> "int", value |-> encode_len(s, tokenizer)]
    ELSE IF lang = None
         THEN [raised |-> "AttributeError", type |-> "none", value |-> 0]
         ELSE IF startswith(lang, "khm_") \/ startswith(lang, "zho_")
                 \/ startswith(lang, "jpn_")
              THEN [raised |-> "no", type |-> "float", value |-> (2 * Len(s)) \div 5]
              ELSE [raised |-> "no", type |-> "int", value |-> Len(s) \div 4]

\* get_token_count as the chunker uses it (source_lang is a string there)
tokens(s, lang) == get_token_count(s, lang).value

-----------------------------------------------------------------------------
(* split_text_into_chunks *)

\* the sentence boundary markers '.!?\n' and the Khmer and CJK enders
sentence_endings == {".", "\n"}

\* The binary search for the longest prefix of s that fits: the last mid the
\* search accepted, 0 when it accepted none.
RECURSIVE binary_search(_, _, _, _, _, _)
binary_search(s, lang, safe, low, high, best) ==
    IF low > high THEN best
    ELSE LET mid == (low + high) \div 2
         IN  IF tokens(Prefix(s, mid), lang) <= safe
             THEN binary_search(s, lang, safe, mid + 1, high, mid)
             ELSE binary_search(s, lang, safe, low, mid - 1, best)

\* search_start = max(0, best_break - (best_break // 5))
search_start_of(best_break) == Max(0, best_break - (best_break \div 5))

\* The backward scan of search_text = rem[search_start:best_break] for the last
\* sentence ending that ends search_text or is followed by whitespace inside
\* search_text: last_sentence_end, -1 when there is none.
last_sentence_end_of(rem, search_start, best_break) ==
    LET search_text == Slice(rem, search_start, best_break)
        n == Len(search_text)
        hits == {idx \in 0..(n - 1) :
                    /\ search_text[idx + 1] \in sentence_endings
                    /\ \/ idx = n - 1
                       \/ (idx + 1 < n /\ isspace(search_text[idx + 2]))}
    IN  IF hits = {} THEN -1 ELSE search_start + SetMax(hits) + 1

\* The cut when the binary search found a fitting prefix: sentence boundary,
\* else (not Khmer) the last space of the prefix from search_start on, else the
\* raw cut at best_break.
primary_cut(rem, lang, best_break) ==
    LET chunk_text == Prefix(rem, best_break)
        search_start == search_start_of(best_break)
        last_sentence_end == last_sentence_end_of(rem, search_start, best_break)
        space_pos == rfind(chunk_text, search_start, Len(chunk_text))
    IN  IF last_sentence_end > search_start
        THEN [branch |-> "sentence", cut |-> last_sentence_end,
              chunk_text |-> strip(Prefix(rem, last_sentence_end)),
              remaining |-> strip(Suffix(rem, last_sentence_end))]
        ELSE IF ~startswith(lang, "khm_") /\ 5 * space_pos > 4 * search_start
        THEN [branch |-> "word", cut |-> space_pos,
              chunk_text |-> strip(Prefix(rem, space_pos)),
              remaining |-> strip(Suffix(rem, space_pos))]
        ELSE [branch |-> "raw", cut |-> best_break,
              chunk_text |-> strip(chunk_text),
              remaining |-> strip(Suffix(rem, best_break))]

\* The cut when the binary search found no fitting prefix: a slice of
\* min(len(remaining), 2 * safe) characters, cut at its last sentence ending
\* followed by whitespace, else (not Khmer) at its last space, else whole.
fallback_cut(rem, lang, safe) ==
    LET fallback_length == Min(Len(rem), safe * 2)
        hits == {idx \in (Max(0, fallback_length - FALLBACK_SCAN) + 1)..(fallback_length - 1) :
                    /\ rem[idx + 1] \in sentence_endings
                    /\ idx < Len(rem) - 1
                    /\ isspace(rem[idx + 2])}
        space_pos == rfind(rem, 0, fallback_length)
    IN  IF hits # {}
        THEN [branch |-> "fallback_sentence", cut |-> SetMax(hits) + 1,
              chunk_text |-> strip(Prefix(rem, SetMax(hits) + 1)),
              remaining |-> strip(Suffix(rem, SetMax(hits) + 1))]
        ELSE IF ~startswith(lang, "khm_") /\ space_pos > 0
        THEN [branch |-> "fallback_word", cut |-> space_pos,
              chunk_text |-> strip(Prefix(rem, space_pos)),
              remaining |-> strip(Suffix(rem, space_pos))]
        ELSE [branch |-> "fallback_raw", cut |-> fallback_length,
              chunk_text |-> strip(Prefix(rem, fallback_length)),
              remaining |-> strip(Suffix(rem, fallback_length))]

\* what line 309 / 314 should have been: the characters cut off the chunk
put_back_removed(cut_chunk, chunk_text, n, rem) == Suffix(cut_chunk, n) \o rem

\* remaining = chunk_text[n:] + remaining, with chunk_text already reassigned
\* to the shortened chunk (cut_chunk is the chunk before it was shortened)
put_back(cut_chunk, chunk_text, n, rem) == Suffix(chunk_text, n) \o rem

\* The post-cut verification of a non-empty chunk_text: when it is over the
\* budget, a second binary search inside it, else 80% of it.
verify_chunk(chunk_text, rem, lang, safe) ==
    IF tokens(chunk_text, lang) <= safe
    THEN [reduced |-> "no", chunk_text |-> chunk_text, remaining |-> rem]
    ELSE LET safe_length == binary_search(chunk_text, lang, safe, 1, Len(chunk_text), 0)
             safe_chunk == Prefix(chunk_text, safe_length)
             reduced_length == (4 * Len(chunk_text)) \div 5
         IN  IF safe_chunk # <<>>
             THEN [reduced |-> "search", chunk_text |-> strip(safe_chunk),
                   remaining |-> put_back(chunk_text, strip(safe_chunk),
                                          safe_length, rem)]
             ELSE [reduced |-> "80%",
                   chunk_text |-> strip(Prefix(chunk_text, reduced_length)),
                   remaining |-> put_back(chunk_text,
                                          strip(Prefix(chunk_text, reduced_length)),
                                          reduced_length, rem)]

\* One iteration of the while loop: the locals it ends with.
loop_body(rem, lang, safe) ==
    LET best_break == binary_search(rem, lang, safe, 1, Len(rem), 0)
        c == IF best_break > 0 THEN primary_cut(rem, lang, best_break)
             ELSE fallback_cut(rem, lang, safe)
        v == IF c.chunk_text # <<>>
             THEN verify_chunk(c.chunk_text, c.remaining, lang, safe)
             ELSE [reduced |-> "no", chunk_text |-> c.chunk_text,
                   remaining |-> c.remaining]
    IN  [before |-> rem, best_break |-> best_break, branch |-> c.branch,
         cut |-> c.cut, cut_chunk |-> c.chunk_text, reduced |-> v.reduced,
         appended |-> c.chunk_text # <<>>,
         chunk_text |-> v.chunk_text, remaining |-> v.remaining]

\* safe_max_tokens = max_tokens - 50
safe_max_tokens_of(mt) == mt - RESERVE

-----------------------------------------------------------------------------
(* The inputs of the model *)

Alphabet == {"a", " ", ".", "\n"}

RECURSIVE Fill(_)
Fill(k) == IF k = 0 THEN <<>> ELSE <<"a">> \o Fill(k - 1)

Tails == UNION {[1..n -> Alphabet] : n \in 0..MaxTail}

\* a run of letters followed by any characters
Texts == {Fill(k) \o t : k \in 0..MaxFill, t \in Tails} \ {<<>>}

\* the tokenizer raises, or counts by letter weight with or without merging
Tokenizers ==
    {[fails |-> TRUE, merge |-> FALSE, w |-> 1]}
    \cup {[fails |-> FALSE, merge |-> m, w |-> w] : m \in BOOLEAN, w \in 1..MaxW}

SafeBudgets == {1, 2, 5, 10}

NoIter ==
    [before |-> <<>>, best_break |-> 0, branch |-> "none", cut |-> 0,
     cut_chunk |-> <<>>, reduced |-> "no", appended |-> FALSE,
     chunk_text |-> <<>>, remaining |-> <<>>]

NoCount == [raised |-> "no", type |-> "none", value |-> 0]

\* the handler's variables while split_text_into_chunks or get_token_count is
\* run on its own
HandlerIdle ==
    /\ target_lang = "eng_Latn"
    /\ model = "loaded"
    /\ i = 0
    /\ translated_chunks = <<>>
    /\ calls = <<>>
    /\ response = None
    /\ split_calls = 0

-----------------------------------------------------------------------------
(* split_text_into_chunks(text, source_lang, max_tokens) as a function *)

SplitInit ==
    /\ text \in Texts
    /\ source_lang \in {"khm_Khmr", "zho_Hans", "eng_Latn"}
    /\ max_tokens \in {RESERVE + b : b \in SafeBudgets}
    /\ tokenizer \in Tokenizers
    /\ pc = "split"
    /\ remaining = <<>>
    /\ chunks = <<>>
    /\ iter = NoIter
    /\ count_result = NoCount
    /\ HandlerIdle

\* lines 178-194: the short-circuit, or the start of the loop
SplitEnter ==
    /\ pc = "split"
    /\ IF tokens(text, source_lang) <= safe_max_tokens_of(max_tokens)
       THEN /\ chunks' = <<text>>
            /\ pc' = "returned"
            /\ iter' = [NoIter EXCEPT !.branch = "short"]
            /\ UNCHANGED remaining
       ELSE /\ chunks' = <<>>
            /\ remaining' = strip(text)
            /\ pc' = "while"
            /\ UNCHANGED iter
    /\ UNCHANGED <<text, source_lang, max_tokens, tokenizer, count_result, handler_vars>>

\* lines 196-317: one iteration of the while loop
SplitIterate ==
    /\ pc = "while"
    /\ remaining # <<>>
    /\ iter' = loop_body(remaining, source_lang, safe_max_tokens_of(max_tokens))
    /\ remaining' = iter'.remaining
    /\ chunks' = IF iter'.appended THEN Append(chunks, iter'.chunk_text) ELSE chunks
    /\ UNCHANGED <<text, source_lang, max_tokens, tokenizer, pc, count_result,
                   handler_vars>>

\* line 319
SplitReturn ==
    /\ pc = "while"
    /\ remaining = <<>>
    /\ pc' = "returned"
    /\ UNCHANGED <<text, source_lang, max_tokens, tokenizer, remaining, chunks, iter,
                   count_result, handler_vars>>

SplitNext == SplitEnter \/ SplitIterate \/ SplitReturn

SplitSpec == SplitInit /\ [][SplitNext]_vars

-----------------------------------------------------------------------------
(* get_token_count(text, source_lang) as a function *)

\* the values of TranslationRequest.source_lang: language tags, and None
SourceLangs == {"khm_Khmr", "zho_Hans", "jpn_Jpan", "eng_Latn", None}

TokInit ==
    /\ text \in Texts
    /\ source_lang \in SourceLangs
    /\ tokenizer \in Tokenizers
    /\ max_tokens = MAX_INPUT_TOKENS
    /\ pc = "count"
    /\ remaining = <<>>
    /\ chunks = <<>>
    /\ iter = NoIter
    /\ count_result = NoCount
    /\ HandlerIdle

\* lines 144-162
CountTokens ==
    /\ pc = "count"
    /\ count_result' = get_token_count(text, source_lang)
    /\ pc' = "counted"
    /\ UNCHANGED <<text, source_lang, tokenizer, chunks, split_vars, handler_vars>>

TokNext == CountTokens

TokSpec == TokInit /\ [][TokNext]_vars

-----------------------------------------------------------------------------
(* translate: the /translate handler *)

MaxText == 4

\* the whole while loop of split_text_into_chunks
RECURSIVE chunk_loop(_, _, _, _)
chunk_loop(rem, acc, lang, safe) ==
    IF rem = <<>> THEN acc
    ELSE LET it == loop_body(rem, lang, safe)
         IN  chunk_loop(it.remaining,
                        IF it.appended THEN Append(acc, it.chunk_text) ELSE acc,
                        lang, safe)

\* split_text_into_chunks(t, lang, max_tokens=mt), its return value
split_text_into_chunks(t, lang, mt) ==
    IF tokens(t, lang) <= safe_max_tokens_of(mt) THEN <<t>>
    ELSE chunk_loop(strip(t), <<>>, lang, safe_max_tokens_of(mt))

\* the language codes the model runtime knows
KnownCodes == {"khm_Khmr", "zho_Hans", "jpn_Jpan", "eng_Latn"}

\* what the model runtime may give back as a translation
Translations == {<<"x">>, <<"x", ".", " ", "y">>}

\* translate_chunk(chunk, src, tgt): the outcomes of one call of the opaque
\* translation collaborator.  An unknown language code is rejected with
\* KeyError; otherwise the call returns a translation or fails otherwise.
translate_chunk(src, tgt) ==
    IF src \notin KnownCodes \/ tgt \notin KnownCodes
    THEN {[raised |-> "KeyError", result |-> <<>>]}
    ELSE {[raised |-> "no", result |-> r] : r \in Translations}
         \cup {[raised |-> "RuntimeError", result |-> <<>>]}

\* the placeholder with the 0-based loop index
placeholder_zero_based(k) == <<"[Translation error in chunk " \o ToString(k) \o "]">>

\* f"[Translation error in chunk {i+1}]", a text of one symbol
placeholder(k) == <<"[Translation error in chunk " \o ToString(k + 1) \o "]">>

\* " ".join(translated_chunks)
RECURSIVE join(_)
join(ss) ==
    IF ss = <<>> THEN <<>>
    ELSE IF Len(ss) = 1 THEN ss[1]
    ELSE ss[1] \o <<" ">> \o join(Tail(ss))

\* len(request.text.split("\n\n")) - 1
RECURSIVE count_breaks(_)
count_breaks(s) ==
    IF Len(s) < 2 THEN 0
    ELSE IF s[1] = "\n" /\ s[2] = "\n" THEN 1 + count_breaks(SubSeq(s, 3, Len(s)))
    ELSE count_breaks(Tail(s))

\* s.replace(". ", ".\n\n", n)
RECURSIVE replace(_, _)
replace(s, n) ==
    IF n = 0 \/ Len(s) < 2 THEN s
    ELSE IF s[1] = "." /\ s[2] = " "
         THEN <<".", "\n", "\n">> \o replace(SubSeq(s, 3, Len(s)), n - 1)
         ELSE <<s[1]>> \o replace(Tail(s), n)

\* lines 399-410: the join and the paragraph restoration
reassemble(tc, t) ==
    IF count_breaks(t) > 0 THEN replace(join(tc), count_breaks(t)) ELSE join(tc)

\* HTTPException(status_code=code) and TranslationResponse
http_error(code) == [status |-> code, translated_text |-> <<>>]

\* the paragraph restoration applied to every response
translation_response_restored(t) ==
    [status |-> 200, translated_text |-> replace(t, count_breaks(text))]

translation_response(t) == [status |-> 200, translated_text |-> t]

call(site, arg) == [site |-> site, arg |-> arg, raised |-> "pending", result |-> <<>>]

\* the last call, returned or raised with outcome o
resolve(log, o) ==
    [log EXCEPT ![Len(log)] = [@ EXCEPT !.raised = o.raised, !.result = o.result]]

HandlerTexts == UNION {[1..n -> Alphabet] : n \in 1..MaxText}

TokenWeights == {1, 300, 500, 950}

HandlerTokenizers ==
    {[fails |-> TRUE, merge |-> FALSE, w |-> 1]}
    \cup {[fails |-> FALSE, merge |-> m, w |-> w] : m \in BOOLEAN, w \in TokenWeights}

\* a request as translate receives it; source_lang is a language tag here
Init ==
    /\ text \in HandlerTexts
    /\ source_lang \in {"khm_Khmr", "eng_Latn", "xxx_Xxxx"}
    /\ target_lang \in {"eng_Latn", "xxx_Xxxx"}
    /\ tokenizer \in HandlerTokenizers
    /\ model \in {"loaded", None}
    /\ max_tokens = MAX_INPUT_TOKENS
    /\ pc = "request"
    /\ remaining = <<>>
    /\ chunks = <<>>
    /\ iter = NoIter
    /\ count_result = NoCount
    /\ i = 0
    /\ translated_chunks = <<>>
    /\ calls = <<>>
    /\ response = None
    /\ split_calls = 0

\* a chunk loop that calls translate_chunk again for a chunk whose call raised
chunk_loop_retry(cs, tc, k, log) ==
    IF log # <<>> /\ log[Len(log)].raised \notin {"no", "pending"}
    THEN /\ translated_chunks' = SubSeq(tc, 1, Len(tc) - 1)
         /\ i' = k - 1
         /\ calls' = Append(log, [site |-> "chunk", arg |-> cs[k],
                                  raised |-> "pending", result |-> <<>>])
         /\ pc' = "chunk_call"
         /\ UNCHANGED response
    ELSE /\ translated_chunks' = tc
         /\ IF k < Len(cs)
            THEN /\ i' = k
                 /\ calls' = Append(log, [site |-> "chunk", arg |-> cs[k + 1],
                                          raised |-> "pending", result |-> <<>>])
                 /\ pc' = "chunk_call"
                 /\ UNCHANGED response
            ELSE /\ calls' = log
                 /\ response' = [status |-> 200, translated_text |-> reassemble(tc, text)]
                 /\ pc' = "responded"
                 /\ UNCHANGED i

\* lines 383-415: the chunk loop from the top of iteration k (0-based) with
\* translated_chunks = tc and call log = log, up to the next call of
\* translate_chunk, or past the loop to the response
chunk_loop_from(cs, tc, k, log) ==
    /\ translated_chunks' = tc
    /\ IF k < Len(cs)
       THEN /\ i' = k
            /\ calls' = Append(log, call("chunk", cs[k + 1]))
            /\ pc' = "chunk_call"
            /\ UNCHANGED response
       ELSE /\ calls' = log
            /\ response' = translation_response(reassemble(tc, text))
            /\ pc' = "responded"
            /\ UNCHANGED i

\* lines 339-391 / 419: validation, the token count and the routing, up to
\* the first call of translate_chunk or to an error response.  (The token
\* counts of lines 384 and 422 are only logged; with source_lang a string
\* get_token_count does not raise.)
HandleRequest ==
    /\ pc = "request"
    /\ LET token_count == get_token_count(text, source_lang)
           safe_max_tokens == MAX_INPUT_TOKENS - HANDLER_RESERVE
       IN  IF model = None
           THEN /\ response' = http_error(503)
                /\ pc' = "responded"
                /\ UNCHANGED <<chunks, max_tokens, split_calls, i, translated_chunks, calls>>
           ELSE IF Len(text) > MAX_TEXT_LENGTH \/ strip(text) = <<>>
           THEN /\ response' = http_error(400)
                /\ pc' = "responded"
                /\ UNCHANGED <<chunks, max_tokens, split_calls, i, translated_chunks, calls>>
           ELSE IF token_count.raised # "no"
           THEN /\ response' = http_error(500)
                /\ pc' = "responded"
                /\ UNCHANGED <<chunks, max_tokens, split_calls, i, translated_chunks, calls>>
           ELSE IF token_count.value > safe_max_tokens
           THEN /\ max_tokens' = safe_max_tokens
                /\ split_calls' = split_calls + 1
                /\ chunks' = split_text_into_chunks(text, source_lang, safe_max_tokens)
                /\ chunk_loop_from(chunks', <<>>, 0, calls)
           ELSE /\ calls' = Append(calls, call("direct", text))
                /\ pc' = "direct_call"
                /\ UNCHANGED <<chunks, max_tokens, split_calls, i, translated_chunks, response>>
    /\ UNCHANGED <<text, source_lang, target_lang, tokenizer, model, remaining, iter,
                   count_result>>

\* lines 391-393: the call for chunk i returns; the loop goes on
ChunkReturns ==
    /\ pc = "chunk_call"
    /\ \E o \in translate_chunk(source_lang, target_lang) :
          /\ o.raised = "no"
          /\ chunk_loop_from(chunks, Append(translated_chunks, o.result), i + 1,
                             resolve(calls, o))
    /\ UNCHANGED <<text, source_lang, target_lang, tokenizer, model, chunks,
                   split_vars, count_result, split_calls>>

\* lines 394-397: the call for chunk i raises; a placeholder, and the loop
\* goes on
ChunkRaises ==
    /\ pc = "chunk_call"
    /\ \E o \in translate_chunk(source_lang, target_lang) :
          /\ o.raised # "no"
          /\ chunk_loop_from(chunks, Append(translated_chunks, placeholder(i)), i + 1,
                             resolve(calls, o))
    /\ UNCHANGED <<text, source_lang, target_lang, tokenizer, model, chunks,
                   split_vars, count_result, split_calls>>

\* lines 419-432: the direct call returns
DirectReturns ==
    /\ pc = "direct_call"
    /\ \E o \in translate_chunk(source_lang, target_lang) :
          /\ o.raised = "no"
          /\ calls' = resolve(calls, o)
          /\ response' = translation_response(o.result)
    /\ pc' = "responded"
    /\ UNCHANGED <<text, source_lang, target_lang, tokenizer, model, chunks,
                   split_vars, count_result, split_calls, i, translated_chunks>>

\* lines 434-445: the direct call raises
DirectRaises ==
    /\ pc = "direct_call"
    /\ \E o \in translate_chunk(source_lang, target_lang) :
          /\ o.raised # "no"
          /\ calls' = resolve(calls, o)
          /\ response' = IF o.raised = "KeyError" THEN http_error(400)
                         ELSE http_error(500)
    /\ pc' = "responded"
    /\ UNCHANGED <<text, source_lang, target_lang, tokenizer, model, chunks,
                   split_vars, count_result, split_calls, i, translated_chunks>>

Next == HandleRequest \/ ChunkReturns \/ ChunkRaises \/ DirectReturns \/ DirectRaises

Spec == Init /\ [][Next]_vars

-----------------------------------------------------------------------------
(* Claims about split_text_into_chunks, checked under SplitSpec *)

safe_budget == safe_max_tokens_of(max_tokens)

NonWhitespace(s) == SelectSeq(s, LAMBDA c : ~isspace(c))

RECURSIVE Concat(_)
Concat(ss) == IF ss = <<>> THEN <<>> ELSE Head(ss) \o Concat(Tail(ss))

\* C1: every chunk appended to the result costs at most the safe budget,
\* whatever the token oracle.
C1_BudgetCompliance ==
    \A k \in 1..Len(chunks) : tokens(chunks[k], source_lang) <= safe_budget

\* C2: for a text over budget the returned chunks, concatenated with whitespace
\* ignored, are the text with whitespace ignored.
C2_Coverage ==
    (pc = "returned" /\ iter.branch # "short")
        => NonWhitespace(Concat(chunks)) = NonWhitespace(text)

\* C3: every iteration of the chunking loop leaves remaining strictly shorter
\* than it found it (the length of remaining is a measure that decreases, so
\* the loop ends with remaining empty).
C3_Progress ==
    /\ [][SplitIterate => Len(remaining') < Len(remaining)]_vars
    /\ [](pc = "returned" => remaining = <<>>)

\* a text with no whitespace and no sentence ending was consumed to the end in
\* several iterations, the last by a raw cut
C3_Witness ==
    /\ pc = "returned"
    /\ remaining = <<>>
    /\ \A k \in 1..Len(text) : text[k] = "a"
    /\ Len(chunks) >= 3
    /\ iter.branch \in {"raw", "fallback_raw"}

\* C4: a text within the safe budget comes back as exactly one chunk, the text
\* with leading and trailing whitespace trimmed.
C4_ShortText ==
    (pc = "returned" /\ iter.branch = "short") => chunks = <<strip(text)>>

\* C10: a sentence cut is at a position p in the last 20% of the fitting prefix
\* where remaining[p-1] is a sentence ending and remaining[p] is whitespace or p
\* is the end of remaining; p is the largest such position and the sentence
\* ending is the last character of the chunk.
C10_SentenceBoundary ==
    iter.branch = "sentence" =>
        LET rem == iter.before
            lo == search_start_of(iter.best_break)
            ok(p) == /\ rem[p] \in sentence_endings
                     /\ (p = Len(rem) \/ isspace(rem[p + 1]))
        IN  /\ lo < iter.cut /\ iter.cut <= iter.best_break
            /\ ok(iter.cut)
            /\ \A q \in (lo + 1)..iter.best_break : ok(q) => q <= iter.cut
            /\ iter.cut_chunk # <<>>
            /\ iter.cut_chunk[Len(iter.cut_chunk)] = rem[iter.cut]

-----------------------------------------------------------------------------
(* Claims about get_token_count, checked under TokSpec *)

\* C8: when the tokenizer call fails, get_token_count raises nothing and
\* returns a non-negative number (the model's values are integers), namely
\* floor(len(text) / 2.5) when source_lang
\* starts with khm_, zho_ or jpn_, floor(len(text) / 4) otherwise.
C8_FallbackNeverFails ==
    (pc = "counted" /\ tokenizer.fails) =>
        LET v == count_result.value
            n == Len(text)
        IN  /\ count_result.raised = "no"
            /\ v >= 0
            /\ IF source_lang \in {"khm_Khmr", "zho_Hans", "jpn_Jpan"}
               THEN 5 * v <= 2 * n /\ 2 * n < 5 * (v + 1)
               ELSE 4 * v <= n /\ n < 4 * (v + 1)

-----------------------------------------------------------------------------
(* Claims about translate, checked under Spec *)

\* the request passed validation and its tokens were counted
valid_request ==
    /\ model # None
    /\ strip(text) # <<>>
    /\ get_token_count(text, source_lang).raised = "no"

handler_budget == MAX_INPUT_TOKENS - HANDLER_RESERVE

within_budget == tokens(text, source_lang) <= handler_budget

expected_placeholder(k) == <<"[Translation error in chunk " \o ToString(k) \o "]">>

\* C5: on the chunked path position k of translated_chunks is the result of
\* the call for chunk k, or the placeholder naming k when that call failed;
\* when the response is sent there is one entry per chunk, whatever failed.
C5_ChunkIsolation ==
    split_calls = 1 =>
        /\ Len(translated_chunks) <= Len(chunks)
        /\ \A k \in 1..Len(translated_chunks) :
              /\ calls[k].arg = chunks[k]
              /\ translated_chunks[k] =
                    IF calls[k].raised = "no" THEN calls[k].result
                    ELSE expected_placeholder(k)
        /\ pc = "responded" =>
              /\ Len(translated_chunks) = Len(chunks)
              /\ response.status = 200

\* three chunks, the second failed, the first and the third were translated
C5_Witness ==
    /\ pc = "responded"
    /\ split_calls = 1
    /\ Len(chunks) = 3
    /\ calls[1].raised = "no"
    /\ calls[2].raised = "RuntimeError"
    /\ calls[3].raised = "no"
    /\ translated_chunks[2] = expected_placeholder(2)

\* C6: a valid request within the safe budget makes exactly one call of the
\* translation collaborator, with the whole text, never calls the chunker and
\* answers with that call's result unmodified; over the budget it calls the
\* chunker, translates chunk by chunk, reassembles, and makes no whole-text
\* call.
C6_Routing ==
    (valid_request /\ pc # "request") =>
        IF within_budget
        THEN /\ split_calls = 0
             /\ Len(calls) = 1
             /\ calls[1].site = "direct"
             /\ calls[1].arg = text
             /\ (pc = "responded" /\ calls[1].raised = "no") =>
                   /\ response.status = 200
                   /\ response.translated_text = calls[1].result
        ELSE /\ split_calls = 1
             /\ \A k \in 1..Len(calls) : calls[k].site = "chunk" /\ calls[k].arg = chunks[k]
             /\ pc = "responded" =>
                   /\ Len(calls) = Len(chunks)
                   /\ response.status = 200
                   /\ response.translated_text =
                         LET joined == join(translated_chunks)
                         IN  IF count_breaks(text) > 0
                             THEN replace(joined, count_breaks(text))
                             ELSE joined

\* a text with a paragraph break went single-shot and the translation, which
\* holds a period and a space, came back as it was
C6_Witness ==
    /\ pc = "responded"
    /\ valid_request
    /\ within_budget
    /\ count_breaks(text) > 0
    /\ calls[1].raised = "no"
    /\ calls[1].result = <<"x", ".", " ", "y">>
    /\ response.translated_text = <<"x", ".", " ", "y">>

\* C7: a request whose language code the translation step rejected with
\* KeyError is answered with status 400, on either path.
C7_InvalidCode400 ==
    (pc = "responded" /\ \E k \in 1..Len(calls) : calls[k].raised = "KeyError")
        => response.status = 400

\* C9: on the chunked path the k-th call of the collaborator is for chunk k,
\* no call starts while an earlier one is pending, nothing is called twice and
\* when the response is sent every chunk has been called once.
C9_SequentialOnce ==
    split_calls = 1 =>
        /\ Len(calls) <= Len(chunks)
        /\ \A k \in 1..Len(calls) :
              /\ calls[k].site = "chunk"
              /\ calls[k].arg = chunks[k]
              /\ k < Len(calls) => calls[k].raised # "pending"
        /\ pc = "chunk_call" => calls[Len(calls)].raised = "pending"
        /\ pc = "responded" =>
              /\ Len(calls) = Len(chunks)
              /\ \A k \in 1..Len(calls) : calls[k].raised # "pending"

\* the call for the first chunk failed, and the second call, the last, was
\* for the second chunk
C9_Witness ==
    /\ pc = "responded"
    /\ split_calls = 1
    /\ Len(chunks) >= 2
    /\ Len(calls) = Len(chunks)
    /\ calls[1].raised = "RuntimeError"
    /\ calls[2].arg = chunks[2]

\* the budget split_text_into_chunks enforces on its chunks when translate
\* calls it: the max_tokens argument it received, less its own reserve
chunker_budget == safe_max_tokens_of(max_tokens)

\* the calls of translate_chunk with the whole text, outside the chunk loop
single_shot == {k \in 1..Len(calls) : calls[k].site = "direct"}

\* C11: in every request sent to chunking the budget the chunker enforces on
\* its chunks is the budget the handler routed by, MAX_INPUT_TOKENS less the
\* reserve of 50 taken once; so a text sent single-shot costs no more tokens
\* than the largest chunk the chunker, called by the handler, may emit.
C11_OneSafeBudget ==
    /\ split_calls > 0 =>
          /\ chunker_budget = handler_budget
          /\ chunker_budget = MAX_INPUT_TOKENS - 50
    /\ single_shot # {} =>
          tokens(text, source_lang) <= safe_max_tokens_of(handler_budget)

====
